---- MODULE Spec2Model ----
(***************************************************************************)
(* GyanGuru: the four POST endpoints of app.py with the lazy service       *)
(* clients, GeminiClient._retry_with_backoff and                           *)
(* ImageGenerator.generate_diagram (Spec); the operations of               *)
(* CodeProcessor, TextToSpeech and ImageGenerator called on their own      *)
(* (UnitSpec); the file writes of requests served at the same time         *)
(* (FileSpec); and the getters of the service clients called from the      *)
(* threads of requests served at the same time (ThreadSpec).               *)
(*                                                                         *)
(* Python strings are sequences of one-character strings, so that strip(), *)
(* lower(), split(), the substring test, the regular expressions and       *)
(* f-string concatenation are computed character by character.            *)
(***************************************************************************)
EXTENDS Integers, Sequences, FiniteSets, TLC

(***************************************************************************)
(* Bounds of the model.                                                    *)
(***************************************************************************)
MaxTopicLen == 2
MaxJobs == 2
MaxCodeLines == 2
MaxPackages == 2
MaxTopicChars == 31
MaxWords == 300
MaxClock == 1
MaxRuns == 2
MaxThreads == 2

(***************************************************************************)
(* String literals of the source.                                          *)
(***************************************************************************)
NoDataProvided ==
    <<"N","o"," ","d","a","t","a"," ","p","r","o","v","i","d","e","d">>
TopicIsRequired ==
    <<"T","o","p","i","c"," ","i","s"," ","r","e","q","u","i","r","e","d">>
MaxRetriesExceeded ==
    <<"M","a","x"," ","r","e","t","r","i","e","s"," ","e","x","c","e","e","d","e","d"," ","f","o","r"," ","A","P","I"," ","c","a","l","l">>
FailedToGenerateCode ==
    <<"F","a","i","l","e","d"," ","t","o"," ","g","e","n","e","r","a","t","e"," ","c","o","d","e">>
FailedToGenerateAudioScript ==
    <<"F","a","i","l","e","d"," ","t","o"," ","g","e","n","e","r","a","t","e"," ","a","u","d","i","o"," ","s","c","r","i","p","t">>
FailedToGenerateImagePrompt ==
    <<"F","a","i","l","e","d"," ","t","o"," ","g","e","n","e","r","a","t","e"," ","i","m","a","g","e"," ","p","r","o","m","p","t">>
TTSFailedPrefix ==
    <<"T","T","S"," ","f","a","i","l","e","d",":"," ">>
ImageFailedPrefix ==
    <<"I","m","a","g","e"," ","g","e","n","e","r","a","t","i","o","n"," ","f","a","i","l","e","d",":"," ">>
PlaceholderFailedPrefix ==
    <<"F","a","i","l","e","d"," ","t","o"," ","c","r","e","a","t","e"," ","p","l","a","c","e","h","o","l","d","e","r",":"," ">>
KeyNotFound ==
    <<"G","E","M","I","N","I","_","A","P","I","_","K","E","Y"," ","n","o","t"," ","f","o","u","n","d","."," ","S","e","t"," ","i","t"," ","i","n"," ","e","n","v","i","r","o","n","m","e","n","t"," ","o","r"," ","p","a","s","s"," ","d","i","r","e","c","t","l","y",".">>
\* str(e) of the AttributeError raised by .strip() on a JSON null / number
\* and by .get() on a JSON array
NoneHasNoStrip ==
    <<"'","N","o","n","e","T","y","p","e","'"," ","o","b","j","e","c","t"," ","h","a","s"," ","n","o"," ","a","t","t","r","i","b","u","t","e"," ","'","s","t","r","i","p","'">>
IntHasNoStrip ==
    <<"'","i","n","t","'"," ","o","b","j","e","c","t"," ","h","a","s"," ","n","o"," ","a","t","t","r","i","b","u","t","e"," ","'","s","t","r","i","p","'">>
ListHasNoGet ==
    <<"'","l","i","s","t","'"," ","o","b","j","e","c","t"," ","h","a","s"," ","n","o"," ","a","t","t","r","i","b","u","t","e"," ","'","g","e","t","'">>
Str429 == <<"4","2","9">>
StrQuota == <<"q","u","o","t","a">>
\* the backquote character (written as a token: the lexer rejects it)
BQ == "BQ"
Fence == <<BQ, BQ, BQ>>
FencePython == <<BQ, BQ, BQ, "p","y","t","h","o","n">>

(***************************************************************************)
(* Python string operations.                                               *)
(***************************************************************************)
Whitespace == {" ", "\t", "\n"}

UpperToLower ==
    [c \in {"A","B","C","D","E","F","G","H","I","J","K","L","M","N","O","P",
            "Q","R","S","T","U","V","W","X","Y","Z"} |->
       CASE c = "A" -> "a" [] c = "B" -> "b" [] c = "C" -> "c" [] c = "D" -> "d"
         [] c = "E" -> "e" [] c = "F" -> "f" [] c = "G" -> "g" [] c = "H" -> "h"
         [] c = "I" -> "i" [] c = "J" -> "j" [] c = "K" -> "k" [] c = "L" -> "l"
         [] c = "M" -> "m" [] c = "N" -> "n" [] c = "O" -> "o" [] c = "P" -> "p"
         [] c = "Q" -> "q" [] c = "R" -> "r" [] c = "S" -> "s" [] c = "T" -> "t"
         [] c = "U" -> "u" [] c = "V" -> "v" [] c = "W" -> "w" [] c = "X" -> "x"
         [] c = "Y" -> "y" [] c = "Z" -> "z"]

\* str.lower()
Lower(s) ==
    [i \in 1..Len(s) |-> IF s[i] \in DOMAIN UpperToLower THEN UpperToLower[s[i]] ELSE s[i]]

\* sub in s
Contains(s, sub) ==
    \E i \in 1..(Len(s) - Len(sub) + 1) : SubSeq(s, i, i + Len(sub) - 1) = sub

\* s.startswith(p), s.endswith(p)
StartsWith(s, p) == Len(s) >= Len(p) /\ SubSeq(s, 1, Len(p)) = p
EndsWith(s, p) == Len(s) >= Len(p) /\ SubSeq(s, Len(s) - Len(p) + 1, Len(s)) = p

\* str.strip(): drop leading and trailing whitespace
Strip(s) ==
    LET keep == {i \in 1..Len(s) : s[i] \notin Whitespace}
    IN  IF keep = {} THEN <<>>
        ELSE LET lo == CHOOSE i \in keep : \A j \in keep : i <= j
                 hi == CHOOSE i \in keep : \A j \in keep : i >= j
             IN  SubSeq(s, lo, hi)

(***************************************************************************)
(* Request bodies.  A JSON value is [t, v]; t is its JSON type and v the   *)
(* characters of the string (or the enum word) when it is a string.        *)
(***************************************************************************)
TopicAlphabet == {" ", "a"}

SeqsUpTo(S, n) == UNION {[1..k -> S] : k \in 0..n}

Topics == SeqsUpTo(TopicAlphabet, MaxTopicLen)

Missing == [t |-> "missing", v |-> <<>>]
Null == [t |-> "null", v |-> <<>>]
Num == [t |-> "num", v |-> <<>>]
StrVal(s) == [t |-> "str", v |-> s]

TopicValues == {Missing, Null, Num} \cup {StrVal(s) : s \in Topics}

Endpoints == {"text", "code", "audio", "image"}

DepthEnum == {"brief", "intermediate", "comprehensive"}
ComplexityEnum == {"basic", "intermediate", "advanced"}
DiagramTypeEnum == {"architecture", "flowchart", "concept_map", "visualization"}

\* the list each endpoint tests its parameter against
EnumOf(ep) ==
    CASE ep = "text" -> DepthEnum
      [] ep = "code" -> ComplexityEnum
      [] ep = "image" -> DiagramTypeEnum
      [] OTHER -> {}

\* the default of data.get(<param>, <default>) and of the fallback assignment
DefaultOf(ep) ==
    CASE ep = "text" -> "comprehensive"
      [] ep = "code" -> "intermediate"
      [] ep = "image" -> "architecture"
      [] OTHER -> "none"

ParamValues(ep) ==
    IF ep = "audio" THEN {Missing}
    ELSE {Missing, Null, Num, StrVal("bogus")} \cup {StrVal(w) : w \in EnumOf(ep)}

\* what request.get_json() hands to the handler: None, a JSON array, or a
\* JSON object with its topic, its endpoint parameter and possibly other keys
NoBody == [kind |-> "none", topic |-> Missing, param |-> Missing, extra |-> FALSE]
ListBody == [kind |-> "list", topic |-> Missing, param |-> Missing, extra |-> FALSE]
ObjectBodies(ep) ==
    {[kind |-> "object", topic |-> tv, param |-> pv, extra |-> x] :
        tv \in TopicValues, pv \in ParamValues(ep), x \in BOOLEAN}
Bodies(ep) == {NoBody, ListBody} \cup ObjectBodies(ep)

\* not data: None and the empty object are falsy
Falsy(d) ==
    \/ d.kind = "none"
    \/ d.kind = "object" /\ d.topic.t = "missing" /\ d.param.t = "missing" /\ ~d.extra

\* data.get(key, default)
GetOr(val, default) == IF val.t = "missing" THEN default ELSE val


(***************************************************************************)
(* What the outside world can answer.                                      *)
(***************************************************************************)
\* response.text of a successful model call
ModelTexts ==
    { <<"x">>,
      <<" ", "x", "\n">>,
      FencePython \o <<"\n", "x", "\n">> \o Fence }

\* str(e) of a failed model call
Err429 == <<"H","T","T","P"," ","4","2","9">>
ErrQuota == <<"Q","u","o","t","a","!">>
ErrBoom == <<"b","o","o","m">>
UpstreamErrors == {Err429, ErrQuota, ErrBoom}

\* str(e) of a failed os.makedirs / open / write / save
DiskFull == <<"d","i","s","k"," ","f","u","l","l">>
Denied == <<"d","e","n","i","e","d">>
IOErrors == {DiskFull, Denied}

Ok == [ok |-> TRUE, err |-> <<>>]
Fail(e) == [ok |-> FALSE, err |-> e]
IOOutcomes == {Ok} \cup {Fail(e) : e \in IOErrors}
ModelOutcomes ==
    {[ok |-> TRUE, text |-> t, err |-> <<>>] : t \in ModelTexts}
      \cup {[ok |-> FALSE, text |-> <<>>, err |-> e] : e \in UpstreamErrors}

(***************************************************************************)
(* More Python string and list operations, used by code_utils.py,          *)
(* tts_utils.py and image_utils.py.                                        *)
(***************************************************************************)
Range(f) == {f[i] : i \in DOMAIN f}

\* ord(c), up to an order-preserving renumbering: the position of c among
\* the characters of the model in ascending code point order
Ord ==
    LET order ==
      <<"\t", "\n", " ", "!", "\"", "#", "&", "'", "(", ")", "*", ",", "-", ".", "/",
        "0", "1", "2", "3", "4", "5", "6", "7", "8", "9", ":", "=",
        "A", "B", "C", "D", "E", "F", "G", "H", "I", "J", "K", "L", "M", "N", "O",
        "P", "Q", "R", "S", "T", "U", "V", "W", "X", "Y", "Z", "\\", "_",
        "a", "b", "c", "d", "e", "f", "g", "h", "i", "j", "k", "l", "m", "n", "o",
        "p", "q", "r", "s", "t", "u", "v", "w", "x", "y", "z">>
    IN  [c \in Range(order) |-> CHOOSE i \in DOMAIN order : order[i] = c]

DigitChars == <<"0", "1", "2", "3", "4", "5", "6", "7", "8", "9">>
\* c.isalnum()
IsAlnum(c) ==
    /\ c \in DOMAIN Ord
    /\ \/ Ord[c] >= Ord["0"] /\ Ord[c] <= Ord["9"]
       \/ Ord[c] >= Ord["A"] /\ Ord[c] <= Ord["Z"]
       \/ Ord[c] >= Ord["a"] /\ Ord[c] <= Ord["z"]

\* the class \w of re
WordChars == {c \in DOMAIN Ord : IsAlnum(c)} \cup {"_"}

\* a < b on str: the first differing character decides, a proper prefix is
\* smaller
StrLess(a, b) ==
    \E i \in 1..(Len(b)) :
       /\ i <= Len(a) + 1
       /\ SubSeq(a, 1, i - 1) = SubSeq(b, 1, i - 1)
       /\ (i = Len(a) + 1 \/ Ord[a[i]] < Ord[b[i]])

\* sorted(l): the element with k - 1 elements before it in the order goes to
\* place k, equal elements keeping their relative order
Sorted_AsIs(l) == l
Sorted(l) ==
    LET n == Len(l)
        rank(i) == 1 + Cardinality({j \in 1..n : \/ StrLess(l[j], l[i])
                                                 \/ l[j] = l[i] /\ j < i})
    IN  [k \in 1..n |-> l[CHOOSE i \in 1..n : rank(i) = k]]

\* the orders in which iterating over a set object can yield its elements
SetOrders(S) ==
    {l \in [1..Cardinality(S) -> S] : \A i, j \in DOMAIN l : l[i] = l[j] => i = j}

\* s.split(sep), sep being one character
RECURSIVE Split(_, _)
Split(s, sep) ==
    LET at == {i \in 1..Len(s) : s[i] = sep}
    IN  IF at = {} THEN <<s>>
        ELSE LET i == CHOOSE k \in at : \A j \in at : k <= j
             IN  <<SubSeq(s, 1, i - 1)>> \o Split(SubSeq(s, i + 1, Len(s)), sep)

\* sep.join(l)
RECURSIVE Join(_, _)
Join(sep, l) ==
    IF l = <<>> THEN <<>>
    ELSE IF Len(l) = 1 THEN l[1]
    ELSE l[1] \o sep \o Join(sep, Tail(l))

(***************************************************************************)
(* CodeProcessor.detect_dependencies.                                      *)
(***************************************************************************)
\* the class attribute KNOWN_PACKAGES: import name to pip package
KNOWN_PACKAGES ==
    LET items ==
      {<<<<"n","u","m","p","y">>, <<"n","u","m","p","y">>>>,
      <<<<"n","p">>, <<"n","u","m","p","y">>>>,
      <<<<"p","a","n","d","a","s">>, <<"p","a","n","d","a","s">>>>,
      <<<<"p","d">>, <<"p","a","n","d","a","s">>>>,
      <<<<"m","a","t","p","l","o","t","l","i","b">>, <<"m","a","t","p","l","o","t","l","i","b">>>>,
      <<<<"p","l","t">>, <<"m","a","t","p","l","o","t","l","i","b">>>>,
      <<<<"s","e","a","b","o","r","n">>, <<"s","e","a","b","o","r","n">>>>,
      <<<<"s","n","s">>, <<"s","e","a","b","o","r","n">>>>,
      <<<<"s","k","l","e","a","r","n">>, <<"s","c","i","k","i","t","-","l","e","a","r","n">>>>,
      <<<<"t","e","n","s","o","r","f","l","o","w">>, <<"t","e","n","s","o","r","f","l","o","w">>>>,
      <<<<"t","f">>, <<"t","e","n","s","o","r","f","l","o","w">>>>,
      <<<<"k","e","r","a","s">>, <<"k","e","r","a","s">>>>,
      <<<<"t","o","r","c","h">>, <<"t","o","r","c","h">>>>,
      <<<<"c","v","2">>, <<"o","p","e","n","c","v","-","p","y","t","h","o","n">>>>,
      <<<<"P","I","L">>, <<"P","i","l","l","o","w">>>>,
      <<<<"s","c","i","p","y">>, <<"s","c","i","p","y">>>>,
      <<<<"x","g","b","o","o","s","t">>, <<"x","g","b","o","o","s","t">>>>,
      <<<<"l","i","g","h","t","g","b","m">>, <<"l","i","g","h","t","g","b","m">>>>,
      <<<<"n","l","t","k">>, <<"n","l","t","k">>>>,
      <<<<"s","p","a","c","y">>, <<"s","p","a","c","y">>>>,
      <<<<"t","r","a","n","s","f","o","r","m","e","r","s">>, <<"t","r","a","n","s","f","o","r","m","e","r","s">>>>,
      <<<<"d","a","t","a","s","e","t","s">>, <<"d","a","t","a","s","e","t","s">>>>,
      <<<<"t","q","d","m">>, <<"t","q","d","m">>>>,
      <<<<"r","e","q","u","e","s","t","s">>, <<"r","e","q","u","e","s","t","s">>>>,
      <<<<"b","s","4">>, <<"b","e","a","u","t","i","f","u","l","s","o","u","p","4">>>>,
      <<<<"n","e","t","w","o","r","k","x">>, <<"n","e","t","w","o","r","k","x">>>>}
    IN  [k \in {it[1] : it \in items} |-> (CHOOSE it \in items : it[1] = k)[2]]

\* the set literal of _is_stdlib
stdlib_modules ==
    {<<"o","s">>,
     <<"s","y","s">>,
     <<"m","a","t","h">>,
     <<"r","a","n","d","o","m">>,
     <<"t","i","m","e">>,
     <<"d","a","t","e","t","i","m","e">>,
     <<"j","s","o","n">>,
     <<"c","o","l","l","e","c","t","i","o","n","s">>,
     <<"i","t","e","r","t","o","o","l","s">>,
     <<"f","u","n","c","t","o","o","l","s">>,
     <<"t","y","p","i","n","g">>,
     <<"r","e">>,
     <<"c","o","p","y">>,
     <<"p","i","c","k","l","e">>,
     <<"c","s","v">>,
     <<"i","o">>,
     <<"s","t","r","i","n","g">>,
     <<"t","e","x","t","w","r","a","p">>,
     <<"s","t","r","u","c","t">>,
     <<"c","o","d","e","c","s">>,
     <<"u","n","i","c","o","d","e","d","a","t","a">>,
     <<"w","a","r","n","i","n","g","s">>,
     <<"l","o","g","g","i","n","g">>,
     <<"a","b","c">>,
     <<"c","o","n","t","e","x","t","l","i","b">>,
     <<"p","a","t","h","l","i","b">>,
     <<"t","e","m","p","f","i","l","e">>,
     <<"s","h","u","t","i","l">>,
     <<"a","r","g","p","a","r","s","e">>,
     <<"c","o","n","f","i","g","p","a","r","s","e","r">>,
     <<"h","a","s","h","l","i","b">>,
     <<"s","e","c","r","e","t","s">>,
     <<"t","h","r","e","a","d","i","n","g">>,
     <<"m","u","l","t","i","p","r","o","c","e","s","s","i","n","g">>,
     <<"q","u","e","u","e">>,
     <<"a","s","y","n","c","i","o">>,
     <<"u","n","i","t","t","e","s","t">>,
     <<"d","o","c","t","e","s","t">>,
     <<"p","d","b">>,
     <<"t","i","m","e","i","t">>,
     <<"s","t","a","t","i","s","t","i","c","s">>,
     <<"d","a","t","a","c","l","a","s","s","e","s">>,
     <<"e","n","u","m">>,
     <<"n","u","m","b","e","r","s">>,
     <<"d","e","c","i","m","a","l">>,
     <<"f","r","a","c","t","i","o","n","s">>}

\* the words of import_patterns: r'^import\s+(\w+)' and r'^from\s+(\w+)'
import_patterns == <<<<"i","m","p","o","r","t">>, <<"f","r","o","m">>>>

\* the first position from i on whose character is not in the set class, or
\* Len(s) + 1
SkipWhile(s, i, class) ==
    LET stop == {j \in i..(Len(s) + 1) : j = Len(s) + 1 \/ s[j] \notin class}
    IN  CHOOSE j \in stop : \A k \in stop : j <= k

\* re.match(pattern, line) is not None, for the pattern of the word kw: the
\* word, one or more whitespace characters, one or more word characters
ReMatches(kw, line) ==
    /\ StartsWith(line, kw)
    /\ LET ws == SkipWhile(line, Len(kw) + 1, Whitespace)
       IN  /\ ws > Len(kw) + 1
           /\ ws <= Len(line)
           /\ line[ws] \in WordChars

\* match.group(1): the longest run of word characters after the whitespace
ReGroup_RestOfLine(kw, line) ==
    SubSeq(line, SkipWhile(line, Len(kw) + 1, Whitespace), Len(line))
ReGroup(kw, line) ==
    LET ws == SkipWhile(line, Len(kw) + 1, Whitespace)
    IN  SubSeq(line, ws, SkipWhile(line, ws, WordChars) - 1)

\* what one detected module adds to pip_packages
Classify_NoStdlibTest(module) ==
    IF module \in DOMAIN KNOWN_PACKAGES THEN {KNOWN_PACKAGES[module]} ELSE {module}
Classify(module) ==
    IF module \in DOMAIN KNOWN_PACKAGES THEN {KNOWN_PACKAGES[module]}
    ELSE IF module \notin stdlib_modules THEN {module}
    ELSE {}

\* the loop over code.split('\n'): the sets imports and pip_packages
ScanImports(code) ==
    LET lines == Split(code, "\n")
        hits == {x \in (DOMAIN lines) \X (DOMAIN import_patterns) :
                   ReMatches(import_patterns[x[2]], Strip(lines[x[1]]))}
        imports == {ReGroup(import_patterns[x[2]], Strip(lines[x[1]])) : x \in hits}
    IN  [imports |-> imports,
         pip_packages |-> UNION {Classify(module) : module \in imports}]

PipInstall == <<"p","i","p"," ","i","n","s","t","a","l","l"," ">>

\* the dict detect_dependencies returns, li and lp being the orders in which
\* list(imports), list(pip_packages) and sorted(pip_packages) iterate over
\* the two sets
DependenciesResult(li, lp) ==
    [imports |-> Sorted(li),
     pip_packages |-> Sorted(lp),
     install_command |-> IF lp # <<>> THEN StrVal(PipInstall \o Join(<<" ">>, Sorted(lp)))
                         ELSE Null]

(***************************************************************************)
(* CodeProcessor._generate_colab_setup and _generate_local_setup.          *)
(***************************************************************************)
ColabReady == <<"#"," ","N","o"," ","a","d","d","i","t","i","o","n","a","l"," ","p","a",
      "c","k","a","g","e","s"," ","r","e","q","u","i","r","e","d"," ","-",
      " ","r","e","a","d","y"," ","t","o"," ","r","u","n","!">>
ColabAllPreinstalled == <<"#"," ","A","l","l"," ","r","e","q","u","i","r","e","d"," ","p","a","c",
      "k","a","g","e","s"," ","a","r","e"," ","p","r","e","-","i","n","s",
      "t","a","l","l","e","d"," ","i","n"," ","G","o","o","g","l","e"," ",
      "C","o","l","a","b","!">>
colab_preinstalled ==
    {<<"n","u","m","p","y">>, <<"p","a","n","d","a","s">>, <<"m","a","t","p","l","o","t","l","i","b">>, <<"s","e","a","b","o","r","n">>, <<"s","c","i","k","i","t","-","l","e","a","r","n">>,
     <<"t","e","n","s","o","r","f","l","o","w">>, <<"k","e","r","a","s">>}

\* [p for p in packages if p not in colab_preinstalled]
PackagesToInstall_All(packages) == packages
PackagesToInstall(packages) ==
    SelectSeq(packages, LAMBDA p : p \notin colab_preinstalled)

\* _generate_colab_setup(packages)
GenerateColabSetup(packages) ==
    IF packages = <<>> THEN ColabReady
    ELSE IF PackagesToInstall(packages) = <<>> THEN ColabAllPreinstalled
    ELSE <<"#"," ","R","u","n"," ","t","h","i","s"," ","c","e","l","l"," ","f","i",
           "r","s","t"," ","t","o"," ","i","n","s","t","a","l","l"," ","r","e",
           "q","u","i","r","e","d"," ","p","a","c","k","a","g","e","s","\n",
           "!","p","i","p"," ","i","n","s","t","a","l","l"," ">>
           \o Join(<<" ">>, PackagesToInstall(packages))
           \o <<"\n","\n","#"," ","T","h","e","n"," ","r","u","n"," ","t","h","e"," ",
      "m","a","i","n"," ","c","o","d","e"," ","b","e","l","o","w">>

LocalNone == <<"N","o"," ","a","d","d","i","t","i","o","n","a","l"," ","p","a","c","k",
      "a","g","e","s"," ","r","e","q","u","i","r","e","d",".">>
LocalHead ==
    <<"#","#"," ","L","o","c","a","l"," ","S","e","t","u","p"," ","I","n","s",
      "t","r","u","c","t","i","o","n","s","\n","\n","1","."," ","C","r",
      "e","a","t","e"," ","a"," ","v","i","r","t","u","a","l"," ","e","n",
      "v","i","r","o","n","m","e","n","t"," ","(","r","e","c","o","m","m",
      "e","n","d","e","d",")",":","\n"," "," "," ",BQ,BQ,BQ,"b","a","s",
      "h","\n"," "," "," ","p","y","t","h","o","n"," ","-","m"," ","v",
      "e","n","v"," ","m","l","_","e","n","v","\n"," "," "," ","s","o",
      "u","r","c","e"," ","m","l","_","e","n","v","/","b","i","n","/","a",
      "c","t","i","v","a","t","e"," "," ","#"," ","O","n"," ","W","i","n",
      "d","o","w","s",":"," ","m","l","_","e","n","v","\\","S","c","r",
      "i","p","t","s","\\","a","c","t","i","v","a","t","e","\n"," "," ",
      " ",BQ,BQ,BQ,"\n","\n","2","."," ","I","n","s","t","a","l","l"," ",
      "r","e","q","u","i","r","e","d"," ","p","a","c","k","a","g","e","s",
      ":","\n"," "," "," ",BQ,BQ,BQ,"b","a","s","h","\n"," "," "," ","p",
      "i","p"," ","i","n","s","t","a","l","l"," ">>
LocalTail ==
    <<"\n"," "," "," ",BQ,BQ,BQ,"\n","\n","3","."," ","R","u","n"," ","t","h",
      "e"," ","c","o","d","e",":","\n"," "," "," ",BQ,BQ,BQ,"b","a","s",
      "h","\n"," "," "," ","p","y","t","h","o","n"," ","y","o","u","r",
      "_","s","c","r","i","p","t",".","p","y","\n"," "," "," ",BQ,BQ,BQ>>

\* the list interpolated into step 2 of the local template
LocalPackages_ColabFiltered(packages) == PackagesToInstall(packages)
LocalPackages(packages) == packages

\* _generate_local_setup(packages)
GenerateLocalSetup(packages) ==
    IF packages = <<>> THEN LocalNone
    ELSE LocalHead \o Join(<<" ">>, LocalPackages(packages)) \o LocalTail

\* format_code_response without the fields it copies from its arguments; deps
\* is what detect_dependencies returned
FormatCodeResponse(deps) ==
    [dependencies |-> deps,
     colab_setup |-> GenerateColabSetup(deps.pip_packages),
     local_setup |-> GenerateLocalSetup(deps.pip_packages)]

(***************************************************************************)
(* File names: the topic slug and datetime.now().strftime(...).  An        *)
(* instant is the local time [Y, m, d, H, M, S] the clock shows.           *)
(***************************************************************************)
\* topic[:30]
SlugLen == 30

\* "".join(c if c.isalnum() else "_" for c in topic[:30])
SafeTopic_Whole(topic) ==
    [i \in 1..Len(topic) |-> IF IsAlnum(topic[i]) THEN topic[i] ELSE "_"]
SafeTopic(topic) ==
    [i \in 1..(IF Len(topic) < SlugLen THEN Len(topic) ELSE SlugLen) |->
       IF IsAlnum(topic[i]) THEN topic[i] ELSE "_"]

\* the directive %Y, %m, %d, %H, %M or %S of width w applied to n
Pad(n, w) == [i \in 1..w |-> DigitChars[((n \div 10^(w - i)) % 10) + 1]]

\* now.strftime("%Y%m%d_%H%M%S")
StampCompact(now) ==
    Pad(now.Y, 4) \o Pad(now.m, 2) \o Pad(now.d, 2) \o <<"_">>
      \o Pad(now.H, 2) \o Pad(now.M, 2) \o Pad(now.S, 2)

\* filename = f"{filename}.ext" unless filename.endswith('.ext')
WithExtension(filename, ext) ==
    IF EndsWith(filename, ext) THEN filename ELSE filename \o ext


\* f"{safe_topic}_{timestamp}.py"
CodeFilename(topic, now) ==
    SafeTopic(topic) \o <<"_">> \o StampCompact(now) \o <<".", "p", "y">>

\* f"audio_lesson_{timestamp}"
AudioFilename(now) == <<"a", "u", "d", "i", "o", "_", "l", "e", "s", "s", "o", "n", "_">> \o StampCompact(now)

\* f"{safe_topic}_{diagram_type}_{timestamp}.png"; the diagram type is an
\* enum word of the model
DiagramFilename(topic, diagram_type, now) ==
    LET chars ==
          [w \in {"architecture", "flowchart", "concept_map", "visualization"} |->
             CASE w = "architecture" -> <<"a","r","c","h","i","t","e","c","t","u","r","e">>
               [] w = "flowchart" -> <<"f","l","o","w","c","h","a","r","t">>
               [] w = "concept_map" -> <<"c","o","n","c","e","p","t","_","m","a","p">>
               [] w = "visualization" -> <<"v","i","s","u","a","l","i","z","a","t","i","o","n">>]
    IN  SafeTopic(topic) \o <<"_">> \o chars[diagram_type] \o <<"_">>
          \o StampCompact(now) \o <<".", "p", "n", "g">>

\* the relative_path prefixes, and os.path.join(self.output_dir, filename)
\* for a relative filename, the output directory written from the package
\* root
StaticCode == <<"/","s","t","a","t","i","c","/","g","e","n","e","r","a","t","e","d","/",
      "c","o","d","e","/">>
StaticAudio == <<"/","s","t","a","t","i","c","/","g","e","n","e","r","a","t","e","d","/",
      "a","u","d","i","o","/">>
StaticImages == <<"/","s","t","a","t","i","c","/","g","e","n","e","r","a","t","e","d","/",
      "i","m","a","g","e","s","/">>
JoinPath(dir, filename) == Tail(dir) \o filename

\* the header comment of save_code_file, topicText being str(topic) and now
\* the second clock reading
HeaderTop == <<"\"","\"","\"","\n","G","e","n","e","r","a","t","e","d"," ","b","y"," ",
      "G","y","a","n","G","u","r","u"," ","-"," ","A","I"," ","M","L"," ",
      "L","e","a","r","n","i","n","g"," ","A","s","s","i","s","t","a","n",
      "t","\n","T","o","p","i","c",":"," ">>
HeaderMid == <<"\n","G","e","n","e","r","a","t","e","d",":"," ">>
HeaderEnd == <<"\n","\"","\"","\"","\n","\n">>
Header(topicText, now) ==
    LET \* now.strftime("%Y-%m-%d %H:%M:%S")
        stamp == Pad(now.Y, 4) \o <<"-">> \o Pad(now.m, 2) \o <<"-">>
                   \o Pad(now.d, 2) \o <<" ">> \o Pad(now.H, 2) \o <<":">>
                   \o Pad(now.M, 2) \o <<":">> \o Pad(now.S, 2)
    IN  HeaderTop \o topicText \o HeaderMid \o stamp \o HeaderEnd

\* round(word_count / 150, 1) in tenths of a minute: word_count / 15 is never
\* halfway between two integers, so the nearest tenth is
\* floor(word_count / 15 + 1 / 2)
WordsPerMinute == 150
EstimatedDurationTenths_Truncated(word_count) == (10 * word_count) \div WordsPerMinute
EstimatedDurationTenths(word_count) ==
    (2 * 10 * word_count + WordsPerMinute) \div (2 * WordsPerMinute)

(***************************************************************************)
(* State.                                                                  *)
(***************************************************************************)
VARIABLES
    api_key,            \* TRUE iff GEMINI_API_KEY is set in the environment
    gemini_client,      \* the four module globals of app.py: "None" or the
    tts_client,         \*   instance
    image_generator,
    code_processor,
    pc,                 \* position of the request being handled
    endpoint,           \* which POST endpoint the request went to
    data,               \* request.get_json()
    topic,              \* local of the handler, after strip()
    param,              \* depth / complexity / diagram_type after the enum test
    clientArgs,         \* arguments the handler passed to the AI client
    attempt,            \* loop variable of _retry_with_backoff
    calls,              \* number of func() invocations in this request
    sleeps,             \* arguments of time.sleep(), in order
    wrapperEnd,         \* how _retry_with_backoff ended
    upstreamErr,        \* str(e) of the last failed model call
    result,             \* dict returned by the AI client method
    compResult,         \* file_info / audio_result / image_result
    imgState,           \* state of generate_diagram
    primaryTries,       \* number of image-model generate_content calls
    primaryOutcome,     \* what the primary try block did
    writes,             \* files written while handling this request
    raised,             \* exception that reached the handler, if any
    resp,               \* the response sent
    nResp,              \* number of responses sent for this request
    call,               \* the component operation called on its own, with
                        \*   its arguments and what it returned
    clock,              \* seconds the wall clock has advanced
    jobs,               \* the second stages of the requests in flight
    disk,               \* the file writes so far, in order
    threads,            \* the request threads: where each is in a getter
    objects             \* per client global: instances constructed, the one
                        \*   the global names, the ones handed to requests

globals == <<api_key, gemini_client, tts_client, image_generator, code_processor>>
reqVars == <<pc, endpoint, data, topic, param, clientArgs, raised, resp, nResp>>
retryVars == <<attempt, calls, sleeps, wrapperEnd, upstreamErr, result>>
compVars == <<compResult, imgState, primaryTries, primaryOutcome, writes>>
vars == <<globals, reqVars, retryVars, compVars, call, clock, jobs, disk,
          threads, objects>>

NoResp == [status |-> 0]
NoResult == [success |-> FALSE, none |-> TRUE]
NotRaised == [is |-> FALSE, msg |-> <<>>]
Raised(e) == [is |-> TRUE, msg |-> e]
NoArgs == [topic |-> <<>>, param |-> "none"]

\* return jsonify({"error": msg}), status
JsonError_BadRequest(status, msg) == [status |-> 400, body |-> [error |-> msg]]
JsonError(status, msg) == [status |-> status, body |-> [error |-> msg]]

\* except Exception as e: return jsonify({"error": str(e)}), 500
InternalServerError ==
    <<"I","n","t","e","r","n","a","l"," ","s","e","r","v","e","r"," ","e","r","r","o","r">>
ExceptClause_Generic(e) == JsonError(500, InternalServerError)
ExceptClause(e) == JsonError(500, e)

\* for attempt in range(max_retries)
max_retries == 3

\* no component operation is being called on its own
NoCall == [op |-> "none"]

Init ==
    /\ api_key \in BOOLEAN
    /\ gemini_client = "None"
    /\ tts_client = "None"
    /\ image_generator = "None"
    /\ code_processor = "None"
    /\ pc = "idle"
    /\ endpoint = "none"
    /\ data = NoBody
    /\ topic = <<>>
    /\ param = "none"
    /\ clientArgs = NoArgs
    /\ attempt = 0
    /\ calls = 0
    /\ sleeps = <<>>
    /\ wrapperEnd = "none"
    /\ upstreamErr = <<>>
    /\ result = NoResult
    /\ compResult = NoResult
    /\ imgState = "Init"
    /\ primaryTries = 0
    /\ primaryOutcome = "none"
    /\ writes = <<>>
    /\ raised = NotRaised
    /\ resp = NoResp
    /\ nResp = 0
    /\ call = NoCall
    /\ clock = 0
    /\ jobs = [j \in (1..MaxJobs) |-> [kind |-> "none"]]
    /\ disk = <<>>
    /\ threads = [t \in 1..MaxThreads |-> [pc |-> "idle"]]
    /\ objects = [g \in {"gemini_client", "tts_client", "image_generator",
                          "code_processor"} |->
                    [made |-> 0, ref |-> 0, used |-> {}]]

\* the handler returns r: the request is over
Respond(r) ==
    /\ resp' = r
    /\ nResp' = nResp + 1
    /\ pc' = "done"

\* an exception propagates to the handler's except clause
Throw(e) ==
    /\ raised' = Raised(e)
    /\ Respond(ExceptClause(e))

(***************************************************************************)
(* The handlers up to the AI client: body, topic and enum tests.           *)
(***************************************************************************)
\* if x not in [...]: x = default
Normalise_NoEnumTest(ep, pv) ==
    IF ep = "audio" THEN "none"
    ELSE IF pv.t = "str" THEN pv.v
    ELSE DefaultOf(ep)
Normalise(ep, pv) ==
    IF ep = "audio" THEN "none"
    ELSE IF pv.t = "str" /\ pv.v \in EnumOf(ep) THEN pv.v
    ELSE DefaultOf(ep)

\* topic = data.get('topic', '').strip()
StripError(tv) == IF tv.t = "null" THEN NoneHasNoStrip ELSE IntHasNoStrip

Prologue(ep, d) ==
    IF Falsy(d) THEN [k |-> "return", r |-> JsonError(400, NoDataProvided)]
    ELSE IF d.kind = "list" THEN [k |-> "raise", e |-> ListHasNoGet]
    ELSE LET tv == GetOr(d.topic, StrVal(<<>>))
         IN  IF tv.t # "str" THEN [k |-> "raise", e |-> StripError(tv)]
             ELSE IF Strip(tv.v) = <<>>
                  THEN [k |-> "return", r |-> JsonError(400, TopicIsRequired)]
                  ELSE [k |-> "go", topic |-> Strip(tv.v),
                        param |-> Normalise(ep, GetOr(d.param, StrVal(DefaultOf(ep))))]

\* a request arrives at endpoint ep with body d
Receive(ep, d) ==
    /\ pc = "idle"
    /\ endpoint' = ep
    /\ data' = d
    /\ LET o == Prologue(ep, d)
       IN  CASE o.k = "return" ->
                  /\ Respond(o.r)
                  /\ UNCHANGED <<raised, topic, param>>
             [] o.k = "raise" ->
                  /\ Throw(o.e)
                  /\ UNCHANGED <<topic, param>>
             [] o.k = "go" ->
                  /\ pc' = "validated"
                  /\ topic' = o.topic
                  /\ param' = o.param
                  /\ UNCHANGED <<raised, resp, nResp>>
    /\ UNCHANGED <<globals, clientArgs, retryVars, compVars>>
    /\ UNCHANGED <<call, clock, jobs, disk, threads, objects>>

\* the handler has returned: its locals are gone, the module globals stay,
\* and the server waits for the next request
Return ==
    /\ pc = "done"
    /\ pc' = "idle"
    /\ endpoint' = "none"
    /\ data' = NoBody
    /\ topic' = <<>>
    /\ param' = "none"
    /\ clientArgs' = NoArgs
    /\ attempt' = 0
    /\ calls' = 0
    /\ sleeps' = <<>>
    /\ wrapperEnd' = "none"
    /\ upstreamErr' = <<>>
    /\ result' = NoResult
    /\ compResult' = NoResult
    /\ imgState' = "Init"
    /\ primaryTries' = 0
    /\ primaryOutcome' = "none"
    /\ writes' = <<>>
    /\ raised' = NotRaised
    /\ resp' = NoResp
    /\ nResp' = 0
    /\ UNCHANGED globals
    /\ UNCHANGED <<call, clock, jobs, disk, threads, objects>>

(***************************************************************************)
(* The AI client: lazy construction, the four generate_* methods and the   *)
(* retry wrapper.                                                          *)
(***************************************************************************)
\* "429" in str(e) or "quota" in str(e).lower()
IsRateLimit_Any(e) == TRUE
IsRateLimit(e) == Contains(e, Str429) \/ Contains(Lower(e), StrQuota)

\* wait_time = (2 ** attempt) * 2
BackoffWait(a) == (2 ^ a) * 2

\* the loop goes on to iteration a: a in range(max_retries)
InRange_Unbounded(a) == TRUE
InRange(a) == a < max_retries

\* raise Exception("Max retries exceeded for API call"), whatever the last
\* upstream error was
RetryExhausted_LastErr(lastErr) == lastErr
RetryExhausted(lastErr) == MaxRetriesExceeded

\* the fence clean-up of generate_code_example
StripFences(text) ==
    LET c1 == Strip(text)
        c2 == IF StartsWith(c1, FencePython) THEN SubSeq(c1, 10, Len(c1))
              ELSE IF StartsWith(c1, Fence) THEN SubSeq(c1, 4, Len(c1))
              ELSE c1
        c3 == IF EndsWith(c2, Fence) THEN SubSeq(c2, 1, Len(c2) - 3) ELSE c2
    IN  Strip(c3)

\* the dict each generate_* method returns for the model text
ClientResult(ep, args, text) ==
    CASE ep = "text" ->
           [topic |-> args.topic, depth |-> args.param, content |-> text,
            success |-> TRUE]
      [] ep = "code" ->
           [topic |-> args.topic, complexity |-> args.param,
            code |-> StripFences(text), success |-> TRUE]
      [] ep = "audio" ->
           [topic |-> args.topic, script |-> Strip(text), success |-> TRUE]
      [] ep = "image" ->
           [topic |-> args.topic, diagram_type |-> args.param,
            prompt |-> Strip(text), success |-> TRUE]

\* client = get_gemini_client(); client.generate_*(topic, <param>) is entered
EnterClient ==
    /\ pc = "validated"
    /\ IF gemini_client = "None" /\ ~api_key
       THEN /\ Throw(KeyNotFound)
            /\ UNCHANGED <<globals, clientArgs, attempt>>
       ELSE /\ gemini_client' = "GeminiClient"
            /\ clientArgs' = [topic |-> topic, param |-> param]
            /\ attempt' = 0
            /\ pc' = "retry"
            /\ UNCHANGED <<api_key, tts_client, image_generator, code_processor,
                           raised, resp, nResp>>
    /\ UNCHANGED <<endpoint, data, topic, param, calls, sleeps, wrapperEnd,
                   upstreamErr, result, compVars>>
    /\ UNCHANGED <<call, clock, jobs, disk, threads, objects>>

\* one iteration of the loop of _retry_with_backoff
RetryAttempt ==
    /\ pc = "retry"
    /\ \E o \in ModelOutcomes :
         /\ calls' = calls + 1
         /\ IF o.ok
            THEN /\ wrapperEnd' = "returned"
                 /\ result' = ClientResult(endpoint, clientArgs, o.text)
                 /\ pc' = "post"
                 /\ UNCHANGED <<attempt, sleeps, upstreamErr, raised, resp, nResp>>
            ELSE /\ upstreamErr' = o.err
                 /\ UNCHANGED result
                 /\ IF IsRateLimit(o.err)
                    THEN /\ sleeps' = Append(sleeps, BackoffWait(attempt))
                         /\ attempt' = attempt + 1
                         /\ IF InRange(attempt + 1)
                            THEN UNCHANGED <<pc, wrapperEnd, raised, resp, nResp>>
                            ELSE /\ wrapperEnd' = "exhausted"
                                 /\ Throw(RetryExhausted(o.err))
                    ELSE /\ wrapperEnd' = "propagated"
                         /\ Throw(o.err)
                         /\ UNCHANGED <<attempt, sleeps>>
    /\ UNCHANGED <<globals, endpoint, data, topic, param, clientArgs, compVars>>
    /\ UNCHANGED <<call, clock, jobs, disk, threads, objects>>

(***************************************************************************)
(* Second stage of the handlers.                                           *)
(***************************************************************************)
\* None where a path could be
NonePath == Null

\* len(code.split('\n'))
LineCount(code) == 1 + Cardinality({i \in 1..Len(code) : code[i] = "\n"})

\* len(text.split())
WordCount(text) ==
    Cardinality({i \in 1..Len(text) :
        /\ text[i] \notin Whitespace
        /\ (i = 1 \/ text[i - 1] \in Whitespace)})

\* the instant k seconds after the one at which the requests of the
\* request-handling specification are served
Instant(k) == [Y |-> 2024, m |-> 1, d |-> 5, H |-> 9, M |-> 3, S |-> 7 + k]

\* how a function body ends: it returns value, or an exception with the
\* message error leaves it; files are the files it wrote
Returned(v, files) == [raised |-> FALSE, value |-> v, files |-> files]
Raises(e) == [raised |-> TRUE, error |-> e, files |-> <<>>]

\* the dict of except Exception as e in save_code_file, text_to_speech and
\* generate_diagram
FailureDict(e) == [success |-> FALSE, error |-> e, filepath |-> Null]

\* try: body / except Exception as e: return {...}
ExceptReturn_Reraise(o) == o
ExceptReturn(o) == IF o.raised THEN Returned(FailureDict(o.error), o.files) ELSE o

NotSubscriptable == <<"'","N","o","n","e","T","y","p","e","'"," ","o","b","j","e","c","t"," ",
      "i","s"," ","n","o","t"," ","s","u","b","s","c","r","i","p","t","a",
      "b","l","e">>
NoEndswith == <<"'","i","n","t","'"," ","o","b","j","e","c","t"," ","h","a","s"," ","n",
      "o"," ","a","t","t","r","i","b","u","t","e"," ","'","e","n","d","s",
      "w","i","t","h","'">>
JoinTypeError == <<"j","o","i","n","(",")"," ","a","r","g","u","m","e","n","t"," ","m","u",
      "s","t"," ","b","e"," ","s","t","r",","," ","b","y","t","e","s",",",
      " ","o","r"," ","o","s",".","P","a","t","h","L","i","k","e"," ","o",
      "b","j","e","c","t",","," ","n","o","t"," ","'","i","n","t","'">>

\* bool(v) of an optional argument: None and "" are false
Truthy(v) == ~(v.t = "null" \/ (v.t = "str" /\ v.v = <<>>))

\* str(v) in an f-string, v being a str or None
PyStr(v) == IF v.t = "str" THEN v.v ELSE <<"N", "o", "n", "e">>

\* CodeProcessor.save_code_file(code, topic, filename): now and now2 are the
\* two readings of datetime.now(), w is what open and f.write did
save_code_file(code, t, filename, now, now2, w) ==
    ExceptReturn(
      IF ~Truthy(filename) /\ t.t # "str" THEN Raises(NotSubscriptable)
      ELSE IF Truthy(filename) /\ filename.t # "str" THEN Raises(NoEndswith)
      ELSE LET fn == WithExtension(IF Truthy(filename) THEN filename.v
                                   ELSE CodeFilename(t.v, now), <<".", "p", "y">>)
               fp == JoinPath(StaticCode, fn)
           IN  IF ~w.ok THEN Raises(w.err)
               ELSE Returned([success |-> TRUE, filepath |-> StrVal(fp),
                              filename |-> fn, relative_path |-> StaticCode \o fn],
                             <<[path |-> fp,
                                content |-> Header(PyStr(t), now2) \o code]>>))

\* TextToSpeech.text_to_speech(text, filename, language, slow): w is what
\* gTTS(...) and tts.save(filepath) did; the audio written is a function of
\* the three arguments handed to gTTS
text_to_speech(text, filename, language, slow, now, w) ==
    ExceptReturn(
      IF Truthy(filename) /\ filename.t # "str" THEN Raises(NoEndswith)
      ELSE LET fn == WithExtension(IF Truthy(filename) THEN filename.v
                                   ELSE AudioFilename(now), <<".", "m", "p", "3">>)
               fp == JoinPath(StaticAudio, fn)
           IN  IF ~w.ok THEN Raises(w.err)
               ELSE Returned([success |-> TRUE, filepath |-> StrVal(fp),
                              filename |-> fn, relative_path |-> StaticAudio \o fn,
                              word_count |-> WordCount(text),
                              estimated_duration_minutes |->
                                  EstimatedDurationTenths(WordCount(text)),
                              language |-> language],
                             <<[path |-> fp,
                                content |-> [text |-> text, lang |-> language,
                                             slow |-> slow]]>>))

\* file_info = processor.save_code_file(result['code'], topic)
SaveCodeFile(code, t, w) == save_code_file(code, StrVal(t), Null, Instant(0), Instant(0), w).value

\* audio_result = tts.text_to_speech(script_result['script'])
TextToSpeech(text, w) == text_to_speech(text, Null, "en", FALSE, Instant(0), w).value

\* return jsonify(result)
FinishText ==
    /\ pc = "post"
    /\ endpoint = "text"
    /\ Respond([status |-> 200, body |-> result])
    /\ UNCHANGED <<globals, endpoint, data, topic, param, clientArgs, raised,
                   retryVars, compVars>>
    /\ UNCHANGED <<call, clock, jobs, disk, threads, objects>>

\* the response dict of api_generate_code, formatted being what
\* format_code_response returned
CodeResponse(t, c, code, formatted, file_info) ==
    [status |-> 200,
     body |-> [success |-> TRUE, topic |-> t, complexity |-> c, code |-> code,
               dependencies |-> formatted.dependencies,
               colab_setup |-> formatted.colab_setup,
               local_setup |-> formatted.local_setup,
               line_count |-> LineCount(code),
               download_url |-> IF file_info.success
                                THEN StrVal(file_info.relative_path)
                                ELSE NonePath]]

\* api_generate_code after the AI client returned
FinishCode ==
    /\ pc = "post"
    /\ endpoint = "code"
    /\ \E ctor \in IOOutcomes, w \in IOOutcomes :
         IF ~result.success
         THEN /\ Respond(JsonError(500, FailedToGenerateCode))
              /\ UNCHANGED <<globals, raised, compVars>>
         ELSE IF code_processor = "None" /\ ~ctor.ok
         THEN /\ Throw(ctor.err)
              /\ UNCHANGED <<globals, compVars>>
         ELSE /\ code_processor' = "CodeProcessor"
              /\ compResult' = SaveCodeFile(result.code, topic, w)
              /\ writes' = IF w.ok THEN Append(writes, "code") ELSE writes
              /\ \E li \in SetOrders(ScanImports(result.code).imports),
                    lp \in SetOrders(ScanImports(result.code).pip_packages) :
                   Respond(CodeResponse(topic, param, result.code,
                               FormatCodeResponse(DependenciesResult(li, lp)),
                               compResult'))
              /\ UNCHANGED <<api_key, gemini_client, tts_client, image_generator,
                             raised, imgState, primaryTries, primaryOutcome>>
    /\ UNCHANGED <<endpoint, data, topic, param, clientArgs, retryVars>>
    /\ UNCHANGED <<call, clock, jobs, disk, threads, objects>>

\* the response dict of api_generate_audio
AudioResponse(t, script_result, audio_result) ==
    [status |-> 200,
     body |-> [success |-> TRUE, topic |-> t, script |-> script_result.script,
               audio_url |-> audio_result.relative_path,
               filename |-> audio_result.filename,
               word_count |-> audio_result.word_count,
               estimated_duration |-> audio_result.estimated_duration_minutes]]

\* api_generate_audio after the AI client returned
FinishAudio ==
    /\ pc = "post"
    /\ endpoint = "audio"
    /\ \E ctor \in IOOutcomes, w \in IOOutcomes :
         IF ~result.success
         THEN /\ Respond(JsonError(500, FailedToGenerateAudioScript))
              /\ UNCHANGED <<globals, raised, compVars>>
         ELSE IF tts_client = "None" /\ ~ctor.ok
         THEN /\ Throw(ctor.err)
              /\ UNCHANGED <<globals, compVars>>
         ELSE /\ tts_client' = "TextToSpeech"
              /\ compResult' = TextToSpeech(result.script, w)
              /\ writes' = IF w.ok THEN Append(writes, "audio") ELSE writes
              /\ IF compResult'.success
                 THEN Respond(AudioResponse(topic, result, compResult'))
                 ELSE Respond(JsonError(500, TTSFailedPrefix \o compResult'.error))
              /\ UNCHANGED <<api_key, gemini_client, image_generator, code_processor,
                             raised, imgState, primaryTries, primaryOutcome>>
    /\ UNCHANGED <<endpoint, data, topic, param, clientArgs, retryVars>>
    /\ UNCHANGED <<call, clock, jobs, disk, threads, objects>>


(***************************************************************************)
(* ImageGenerator.generate_diagram and api_generate_image.                 *)
(***************************************************************************)
\* what the primary try block can do: the image model raises; the response
\* has no inline image data; inline data is decoded and written; inline data
\* is there but open/write raises
PrimaryOutcomes == {"raised", "no_data", "written", "write_failed"}

\* where the try blocks send generate_diagram after the primary attempt: the
\* inner except swallows every exception, and the fall-through reaches the
\* placeholder
AfterPrimary_NoInnerExcept(o) ==
    IF o = "written" THEN "Done" ELSE IF o = "no_data" THEN "Fallback" ELSE "Failed"
AfterPrimary(o) == IF o = "written" THEN "Done" ELSE "Fallback"

\* the dict of the outer except clause
OuterExcept(e) == FailureDict(e)

\* the dict returned from the primary path, fn being the file name
PrimaryResult(t, dt, fn) ==
    [success |-> TRUE, filepath |-> StrVal(JoinPath(StaticImages, fn)),
     filename |-> fn, relative_path |-> StaticImages \o fn,
     topic |-> t, diagram_type |-> dt, method |-> "gemini"]

\* _create_placeholder_image(topic, diagram_type, filename, filepath), w
\* being what drawing and img.save did; its own try block covers topic[:40]
CreatePlaceholderImage(t, dt, fn, w) ==
    IF t.t # "str"
    THEN FailureDict(PlaceholderFailedPrefix \o NotSubscriptable)
    ELSE IF w.ok
    THEN [success |-> TRUE, filepath |-> StrVal(JoinPath(StaticImages, fn)),
          filename |-> fn, relative_path |-> StaticImages \o fn,
          topic |-> t, diagram_type |-> dt, method |-> "placeholder"]
    ELSE FailureDict(PlaceholderFailedPrefix \o w.err)

\* ImageGenerator.generate_diagram(prompt, topic, diagram_type, filename): o
\* is what the primary try block did and w what the placeholder did
generate_diagram(t, dt, filename, now, o, w) ==
    ExceptReturn(
      IF ~Truthy(filename) /\ t.t # "str" THEN Raises(NotSubscriptable)
      ELSE IF Truthy(filename) /\ filename.t # "str" THEN Raises(JoinTypeError)
      ELSE LET fn == IF Truthy(filename) THEN filename.v
                     ELSE DiagramFilename(t.v, dt, now)
               fp == JoinPath(StaticImages, fn)
               placeholder == CreatePlaceholderImage(t, dt, fn, w)
           IN  CASE AfterPrimary(o) = "Done" ->
                      Returned(PrimaryResult(t, dt, fn),
                               <<[path |-> fp, content |-> "gemini"]>>)
                 [] AfterPrimary(o) = "Failed" -> Raises(ErrBoom)
                 [] OTHER ->
                      Returned(placeholder,
                               IF placeholder.success
                               THEN <<[path |-> fp, content |-> "placeholder"]>>
                               ELSE <<>>))

\* image_result.get('method', 'unknown')
MethodOf_Unknown(image_result) == "unknown"
MethodOf(image_result) == image_result.method

\* the response dict of api_generate_image
ImageResponse(t, dt, image_result, prompt) ==
    [status |-> 200,
     body |-> [success |-> TRUE, topic |-> t, diagram_type |-> dt,
               image_url |-> image_result.relative_path,
               filename |-> image_result.filename,
               method |-> MethodOf(image_result), prompt |-> prompt]]

\* generator = get_image_generator(); generate_diagram is entered and
\* derives the file name
EnterDiagram ==
    /\ pc = "post"
    /\ endpoint = "image"
    /\ \E ctor \in IOOutcomes :
         IF ~result.success
         THEN /\ Respond(JsonError(500, FailedToGenerateImagePrompt))
              /\ UNCHANGED <<globals, raised, imgState>>
         ELSE IF image_generator = "None" /\ ~ctor.ok
         THEN /\ Throw(ctor.err)
              /\ UNCHANGED <<globals, imgState>>
         ELSE /\ image_generator' = "ImageGenerator"
              /\ imgState' = "PrimaryAttempt"
              /\ pc' = "diagram"
              /\ UNCHANGED <<api_key, gemini_client, tts_client, code_processor,
                             raised, resp, nResp>>
    /\ UNCHANGED <<endpoint, data, topic, param, clientArgs, retryVars,
                   compResult, primaryTries, primaryOutcome, writes>>
    /\ UNCHANGED <<call, clock, jobs, disk, threads, objects>>

\* the inner try block: one generate_content call on the image model
PrimaryAttempt ==
    /\ pc = "diagram"
    /\ imgState = "PrimaryAttempt"
    /\ \E o \in PrimaryOutcomes :
         /\ primaryTries' = primaryTries + 1
         /\ primaryOutcome' = o
         /\ imgState' = AfterPrimary(o)
         /\ writes' = IF o = "written" THEN Append(writes, "image:gemini") ELSE writes
         /\ compResult' = CASE AfterPrimary(o) = "Done" ->
                                 PrimaryResult(StrVal(topic), param,
                                     DiagramFilename(topic, param, Instant(0)))
                            [] AfterPrimary(o) = "Failed" -> OuterExcept(ErrBoom)
                            [] OTHER -> compResult
    /\ UNCHANGED <<globals, reqVars, retryVars>>
    /\ UNCHANGED <<call, clock, jobs, disk, threads, objects>>

\* return self._create_placeholder_image(...)
Fallback ==
    /\ pc = "diagram"
    /\ imgState = "Fallback"
    /\ \E w \in IOOutcomes :
         /\ compResult' = CreatePlaceholderImage(StrVal(topic), param,
                              DiagramFilename(topic, param, Instant(0)), w)
         /\ writes' = IF w.ok THEN Append(writes, "image:placeholder") ELSE writes
         /\ imgState' = IF w.ok THEN "Done" ELSE "Failed"
    /\ UNCHANGED <<globals, reqVars, retryVars, primaryTries, primaryOutcome>>
    /\ UNCHANGED <<call, clock, jobs, disk, threads, objects>>

\* api_generate_image after generate_diagram returned
FinishImage ==
    /\ pc = "diagram"
    /\ imgState \in {"Done", "Failed"}
    /\ IF compResult.success
       THEN Respond(ImageResponse(topic, param, compResult, result.prompt))
       ELSE Respond(JsonError(500, ImageFailedPrefix \o compResult.error))
    /\ UNCHANGED <<globals, endpoint, data, topic, param, clientArgs, raised,
                   retryVars, compVars>>
    /\ UNCHANGED <<call, clock, jobs, disk, threads, objects>>

(***************************************************************************)
(* The specification.                                                      *)
(***************************************************************************)
Next ==
    \/ \E ep \in Endpoints : \E d \in Bodies(ep) : Receive(ep, d)
    \/ EnterClient
    \/ RetryAttempt
    \/ FinishText
    \/ FinishCode
    \/ FinishAudio
    \/ EnterDiagram
    \/ PrimaryAttempt
    \/ Fallback
    \/ FinishImage
    \/ Return

Spec == Init /\ [][Next]_vars

(***************************************************************************)
(* The component operations called on their own: one call at a time, with  *)
(* arguments from bounded sets, the variable call holding the arguments    *)
(* and the result.                                                         *)
(***************************************************************************)
\* generated programs: up to MaxCodeLines of these lines
Codes ==
    LET lines ==
        {<<"i","m","p","o","r","t"," ","n","u","m","p","y"," ","a","s"," ","n","p">>,
         <<"f","r","o","m"," ","o","s"," ","i","m","p","o","r","t"," ","p","a","t",
          "h">>,
         <<" "," ","i","m","p","o","r","t"," ","c","v","2">>,
         <<"f","r","o","m"," ","s","k","l","e","a","r","n",".","s","v","m"," ","i",
          "m","p","o","r","t"," ","S","V","C">>,
         <<"i","m","p","o","r","t"," ","f","o","o",","," ","b","a","r">>,
         <<"x"," ","="," ","n","p",".","z","e","r","o","s","(","3",")">>,
         <<"f","r","o","m"," ","."," ","i","m","p","o","r","t"," ","y">>,
         <<"i","m","p","o","r","t","l","i","b",".","r","e","l","o","a","d","(","m",
          ")">>,
         <<"f","r","o","m"," ","n","u","m","p","y"," ","i","m","p","o","r","t"," ",
          "p","i">>,
         <<"i","m","p","o","r","t","\t","j","s","o","n">>}
    IN  {Join(<<"\n">>, ls) : ls \in SeqsUpTo(lines, MaxCodeLines)}

\* package lists handed to the two setup generators
PackageLists ==
    SeqsUpTo({<<"n","u","m","p","y">>,
              <<"s","c","i","k","i","t","-","l","e","a","r","n">>,
              <<"t","o","r","c","h">>,
              <<"o","p","e","n","c","v","-","p","y","t","h","o","n">>}, MaxPackages)

\* topics handed to save_code_file and generate_diagram: the prefixes of a
\* long title, and "Gradient Descent"
UnitTopics ==
    LET long == <<"k","-","m","e","a","n","s"," ","&"," ","P","C","A",":"," ","A","/","B",
      " ","t","e","s","t","s",","," ","2","n","d"," ","e","d","."," ","(",
      "v","2",")"," ","a","n","d"," ","m","o","r","e">>
    IN  {Null, StrVal(<<"G","r","a","d","i","e","n","t"," ","D","e","s","c","e","n","t">>)}
          \cup {StrVal(SubSeq(long, 1, n)) : n \in 0..MaxTopicChars}

\* processor.detect_dependencies(code)
CallDetectDependencies(code) ==
    /\ call = NoCall
    /\ \E li \in SetOrders(ScanImports(code).imports),
          lp \in SetOrders(ScanImports(code).pip_packages) :
         call' = [op |-> "detect_dependencies", code |-> code,
                  runs |-> <<DependenciesResult(li, lp)>>]
    /\ UNCHANGED <<globals, reqVars, retryVars, compVars, clock, jobs, disk,
                   threads, objects>>

\* processor.detect_dependencies(code) once more on the same code
CallDetectAgain ==
    /\ call.op = "detect_dependencies"
    /\ Len(call.runs) < MaxRuns
    /\ \E li \in SetOrders(ScanImports(call.code).imports),
          lp \in SetOrders(ScanImports(call.code).pip_packages) :
         call' = [call EXCEPT !.runs = Append(@, DependenciesResult(li, lp))]
    /\ UNCHANGED <<globals, reqVars, retryVars, compVars, clock, jobs, disk,
                   threads, objects>>

\* processor._generate_colab_setup(packages)
CallGenerateColabSetup(packages) ==
    /\ call = NoCall
    /\ call' = [op |-> "colab_setup", packages |-> packages,
                out |-> GenerateColabSetup(packages)]
    /\ UNCHANGED <<globals, reqVars, retryVars, compVars, clock, jobs, disk,
                   threads, objects>>

\* processor._generate_local_setup(packages)
CallGenerateLocalSetup(packages) ==
    /\ call = NoCall
    /\ call' = [op |-> "local_setup", packages |-> packages,
                out |-> GenerateLocalSetup(packages)]
    /\ UNCHANGED <<globals, reqVars, retryVars, compVars, clock, jobs, disk,
                   threads, objects>>

\* processor.format_code_response(code, topic, complexity)
CallFormatCodeResponse(code) ==
    /\ call = NoCall
    /\ \E li \in SetOrders(ScanImports(code).imports),
          lp \in SetOrders(ScanImports(code).pip_packages) :
         call' = [op |-> "format_code_response", code |-> code,
                  out |-> FormatCodeResponse(DependenciesResult(li, lp))]
    /\ UNCHANGED <<globals, reqVars, retryVars, compVars, clock, jobs, disk,
                   threads, objects>>

\* processor.save_code_file(code, topic, filename)
CallSaveCodeFile(code, t, filename) ==
    /\ call = NoCall
    /\ \E k \in 0..MaxClock, w \in IOOutcomes : \E k2 \in k..MaxClock :
         call' = [op |-> "save_code_file", code |-> code, topic |-> t,
                  filename |-> filename, now |-> Instant(k), w |-> w,
                  out |-> save_code_file(code, t, filename, Instant(k),
                                         Instant(k2), w)]
    /\ UNCHANGED <<globals, reqVars, retryVars, compVars, clock, jobs, disk,
                   threads, objects>>

\* tts.text_to_speech(text, filename), and the response api_generate_audio
\* builds from a successful result; the text is a script of n words, sep
\* between two words and around the script
CallTextToSpeech(n, sep, filename) ==
    /\ call = NoCall
    /\ \E k \in 0..MaxClock, w \in IOOutcomes :
         LET block == <<"h", "i">> \o sep
             text == [i \in 1..(Len(sep) + n * Len(block)) |->
                        IF i <= Len(sep) THEN sep[i]
                        ELSE block[((i - Len(sep) - 1) % Len(block)) + 1]]
             now == Instant(k)
             out == text_to_speech(text, filename, "en", FALSE, now, w)
         IN  call' = [op |-> "text_to_speech", words |-> n, text |-> text,
                      filename |-> filename, now |-> now, w |-> w, out |-> out,
                      response |->
                          IF ~out.raised /\ out.value.success
                          THEN AudioResponse(<<"t">>, [script |-> text], out.value)
                          ELSE NoResp]
    /\ UNCHANGED <<globals, reqVars, retryVars, compVars, clock, jobs, disk,
                   threads, objects>>

\* generator.generate_diagram(prompt, topic, diagram_type, filename)
CallGenerateDiagram(t, dt, filename) ==
    /\ call = NoCall
    /\ \E k \in 0..MaxClock, o \in PrimaryOutcomes, w \in IOOutcomes :
         call' = [op |-> "generate_diagram", topic |-> t, diagram_type |-> dt,
                  filename |-> filename, now |-> Instant(k), primary |-> o,
                  w |-> w,
                  out |-> generate_diagram(t, dt, filename, Instant(k), o, w)]
    /\ UNCHANGED <<globals, reqVars, retryVars, compVars, clock, jobs, disk,
                   threads, objects>>

\* the call is over
CallReturn ==
    /\ call # NoCall
    /\ call' = NoCall
    /\ UNCHANGED <<globals, reqVars, retryVars, compVars, clock, jobs, disk,
                   threads, objects>>

UnitNext ==
    \/ \E code \in Codes : CallDetectDependencies(code)
    \/ CallDetectAgain
    \/ \E packages \in PackageLists : CallGenerateColabSetup(packages)
    \/ \E packages \in PackageLists : CallGenerateLocalSetup(packages)
    \/ \E code \in Codes : CallFormatCodeResponse(code)
    \/ \E code \in {<<"x"," ","="," ","1">>, <<"i","m","p","o","r","t"," ","o","s","\n","p","r","i","n","t","(","o",
                       "s",".","n","a","m","e",")","\n">>},
          t \in UnitTopics,
          filename \in {Null, StrVal(<<>>), StrVal(<<"n","o","t","e","s">>), StrVal(<<"n","o","t","e","s",".","p","y">>), Num} :
         CallSaveCodeFile(code, t, filename)
    \/ \E t \in {x \in UnitTopics : x = Null \/ Len(x.v) \in {16, MaxTopicChars}},
          dt \in DiagramTypeEnum,
          filename \in {Null, StrVal(<<"d",".","p","n","g">>), Num} :
         CallGenerateDiagram(t, dt, filename)
    \/ \E n \in 0..MaxWords, sep \in {<<" ">>, <<"\n", "\t">>},
          filename \in {Null, StrVal(<<"l","e","s","s","o","n">>), Num} :
         CallTextToSpeech(n, sep, filename)
    \/ CallReturn

\* the calls are made in a process whose environment holds the API key
UnitInit == Init /\ api_key = TRUE

UnitSpec == UnitInit /\ [][UnitNext]_vars

(***************************************************************************)
(* The second stages of requests served at the same time: app.run serves   *)
(* each request in its own thread, so between the clock reading that names *)
(* a file and the write of that file other requests can read the clock and *)
(* write.  A job is the second stage of one request whose AI client call   *)
(* has succeeded.                                                          *)
(***************************************************************************)
\* the component of request j is entered and reads the clock for the
\* timestamp of the file name
JobName(j, kind, t, dt) ==
    /\ jobs[j] = [kind |-> "none"]
    /\ jobs' = [jobs EXCEPT ![j] = [kind |-> kind, topic |-> t, param |-> dt,
                                    stamp |-> clock, pc |-> "named"]]
    /\ UNCHANGED <<clock, disk, globals, reqVars, retryVars, compVars, call,
                   threads, objects>>

\* the component of request j opens its file for writing and writes it, the
\* write going as w
JobWrite(j, w) ==
    /\ jobs[j] # [kind |-> "none"]
    /\ jobs[j].pc = "named"
    /\ jobs' = [jobs EXCEPT ![j].pc = "returned"]
    /\ LET jb == jobs[j]
           now == Instant(jb.stamp)
           files ==
             CASE jb.kind = "code" ->
                    save_code_file(<<"x">>, StrVal(jb.topic), Null, now, now, w).files
               [] jb.kind = "audio" ->
                    text_to_speech(<<"x">>, Null, "en", FALSE, now, w).files
               [] jb.kind = "image" ->
                    generate_diagram(StrVal(jb.topic), jb.param, Null, now,
                                     IF w.ok THEN "written" ELSE "raised", w).files
       IN  disk' = disk \o [i \in DOMAIN files |-> [path |-> files[i].path, job |-> j]]
    /\ UNCHANGED <<clock, globals, reqVars, retryVars, compVars, call,
                   threads, objects>>

\* a second passes
Tick ==
    /\ clock < MaxClock
    /\ clock' = clock + 1
    /\ UNCHANGED <<jobs, disk, globals, reqVars, retryVars, compVars, call,
                   threads, objects>>

FileNext ==
    \/ \E j \in (1..MaxJobs), kind \in {"code", "audio", "image"},
          t \in {<<"a">>, <<"a", " ", "b">>, <<"a", "-", "b">>} :
         \E dt \in IF kind = "image" THEN {"architecture", "flowchart"}
                    ELSE {"none"} :
           JobName(j, kind, t, dt)
    \/ \E j \in (1..MaxJobs), w \in IOOutcomes : JobWrite(j, w)
    \/ Tick

FileSpec == UnitInit /\ [][FileNext]_vars

(***************************************************************************)
(* The four getters of app.py under the threads of app.run: each request   *)
(* is served in a thread of its own, and a thread can be suspended between *)
(* the test of the global and the assignment to it, and between the        *)
(* assignment and the return.  An instance is named by its ordinal among   *)
(* the instances of its class constructed so far.                          *)
(***************************************************************************)
\* get_<client>() is entered by the request of thread t: if <client> is None
GetterTest(t, g) ==
    /\ threads[t].pc = "idle"
    /\ threads' = [threads EXCEPT ![t] =
                     [pc |-> IF objects[g].ref = 0 THEN "construct" ELSE "return",
                      getter |-> g]]
    /\ UNCHANGED <<globals, reqVars, retryVars, compVars, call, clock, jobs, disk,
                   objects>>

\* <client> = <Class>(): the constructor runs and the global is bound to the
\* new instance, or the constructor raises and so does the getter; ok says
\* whether os.makedirs succeeds, and GeminiClient() raises without a key
GetterConstruct(t, ok) ==
    /\ threads[t].pc = "construct"
    /\ LET g == threads[t].getter
           built == IF g = "gemini_client" THEN api_key ELSE ok
       IN  IF built
           THEN /\ objects' = [objects EXCEPT ![g] =
                                 [made |-> objects[g].made + 1,
                                  ref |-> objects[g].made + 1,
                                  used |-> objects[g].used]]
                /\ threads' = [threads EXCEPT ![t].pc = "return"]
                /\ gemini_client' =
                     IF g = "gemini_client" THEN "GeminiClient" ELSE gemini_client
                /\ tts_client' =
                     IF g = "tts_client" THEN "TextToSpeech" ELSE tts_client
                /\ image_generator' =
                     IF g = "image_generator" THEN "ImageGenerator"
                     ELSE image_generator
                /\ code_processor' =
                     IF g = "code_processor" THEN "CodeProcessor"
                     ELSE code_processor
                /\ UNCHANGED api_key
           ELSE /\ threads' = [threads EXCEPT ![t] = [pc |-> "idle"]]
                /\ UNCHANGED <<globals, objects>>
    /\ UNCHANGED <<reqVars, retryVars, compVars, call, clock, jobs, disk>>

\* return <client>: the global is read again, and the request of thread t
\* goes on with the instance it names
GetterReturn(t) ==
    /\ threads[t].pc = "return"
    /\ objects' = [objects EXCEPT ![threads[t].getter].used =
                     @ \cup {objects[threads[t].getter].ref}]
    /\ threads' = [threads EXCEPT ![t] = [pc |-> "idle"]]
    /\ UNCHANGED <<globals, reqVars, retryVars, compVars, call, clock, jobs, disk>>

ThreadNext ==
    \/ \E t \in 1..MaxThreads, g \in DOMAIN objects : GetterTest(t, g)
    \/ \E t \in 1..MaxThreads, ok \in BOOLEAN : GetterConstruct(t, ok)
    \/ \E t \in 1..MaxThreads : GetterReturn(t)

ThreadSpec == Init /\ [][ThreadNext]_vars

TypeOK ==
    /\ pc \in {"idle", "validated", "retry", "post", "diagram", "done"}
    /\ endpoint \in Endpoints \cup {"none"}
    /\ attempt \in 0..max_retries
    /\ calls \in 0..max_retries
    /\ nResp \in 0..1
    /\ imgState \in {"Init", "PrimaryAttempt", "Fallback", "Done", "Failed"}


(***************************************************************************)
(* Properties.                                                             *)
(***************************************************************************)
Done == pc = "done"
IsError(status, msg) == resp.status = status /\ resp.body.error = msg

\* the body is a JSON object whose topic key is absent
TopicAbsent(d) == d.kind = "object" /\ d.topic.t = "missing"
\* the body is a JSON object whose topic is a string that trims to nothing
TopicBlank(d) == d.kind = "object" /\ d.topic.t = "str" /\ Strip(d.topic.v) = <<>>
\* the body is a JSON object whose topic is a string that survives trimming
TopicValid(d) == d.kind = "object" /\ d.topic.t = "str" /\ Strip(d.topic.v) # <<>>

\* C1: at each of the four endpoints a request without a body is answered
\* 400 "No data provided", and every request with a body whose topic is
\* missing or empty after trimming is answered 400 "Topic is required".
C1_BodyAndTopicErrors ==
    Done =>
      /\ (data.kind = "none" => IsError(400, NoDataProvided))
      /\ (TopicAbsent(data) \/ TopicBlank(data) => IsError(400, TopicIsRequired))

\* C2: for a request with a valid topic, a depth / complexity / diagram_type
\* outside its enum causes no failure: the AI client is reached, the value
\* passed to it is the value of the body when that is in the enum and the
\* default otherwise, and the value echoed in a 200 response is in the enum.
EchoOf(ep, body) ==
    CASE ep = "text" -> body.depth
      [] ep = "code" -> body.complexity
      [] ep = "image" -> body.diagram_type

InEnum(ep, pv) == pv.t = "str" /\ pv.v \in EnumOf(ep)

C2_EnumDefault ==
    endpoint \in {"text", "code", "image"} =>
      /\ (Done /\ TopicValid(data) /\ clientArgs = NoArgs
            => raised = Raised(KeyNotFound))
      /\ (clientArgs # NoArgs =>
            /\ clientArgs.param \in EnumOf(endpoint)
            /\ (InEnum(endpoint, data.param) => clientArgs.param = data.param.v)
            /\ (~InEnum(endpoint, data.param) => clientArgs.param = DefaultOf(endpoint)))
      /\ (Done /\ resp.status = 200 => EchoOf(endpoint, resp.body) \in EnumOf(endpoint))

C2_Witness ==
    /\ Done
    /\ endpoint = "text"
    /\ data.param = StrVal("bogus")
    /\ resp.status = 200
    /\ resp.body.depth = "comprehensive"


\* C3: every request ends with exactly one response, of status 200, 400 or
\* 500; an exception raised at any step (body handling, client construction,
\* AI call, second stage) is answered 500 with the message of the exception
\* as error; and the next request starts from a clean handler.
C3_OneResponse ==
    /\ (Done => nResp = 1 /\ resp.status \in {200, 400, 500})
    /\ (~Done => nResp = 0 /\ resp = NoResp /\ ~raised.is)
    /\ (raised.is => Done /\ IsError(500, raised.msg))
    /\ (pc = "idle" => calls = 0 /\ attempt = 0 /\ wrapperEnd = "none")

C3_Witness ==
    /\ Done
    /\ raised.is
    /\ raised.msg \in IOErrors
    /\ resp.status = 500
    /\ gemini_client # "None"

\* C4: a model call that fails with a rate-limit error is retried, up to 3
\* times; the wait before the retry that follows attempt number a is
\* 2^a * 2 seconds (2, 4, 8 in that order), so every wait is followed by a
\* retry; the first success ends the wrapper.
C4_RetriedThreeTimes ==
    wrapperEnd # "none" =>
      /\ calls - 1 <= 3
      /\ Len(sleeps) = calls - 1
      /\ \A i \in 1..Len(sleeps) : sleeps[i] = (2 ^ (i - 1)) * 2
      /\ (wrapperEnd = "exhausted" => calls - 1 = 3)
      /\ (wrapperEnd = "returned" => pc \in {"post", "diagram", "done"})

\* the claim's own reading of a message without rate-limit indicator
C5_NoIndicator(e) ==
    /\ e # <<>>
    /\ ~Contains(e, <<"4","2","9">>)
    /\ ~Contains(Lower(e), <<"q","u","o","t","a">>)

\* C5: a model-call failure whose message has no rate-limit indicator
\* propagates at once, at whichever attempt it occurs: the wrapper ends, the
\* same error reaches the caller, nothing is slept for it and the request is
\* over without a further model call.
C5_OtherErrorsPropagate ==
    /\ (C5_NoIndicator(upstreamErr) =>
          /\ wrapperEnd = "propagated"
          /\ Done
          /\ raised = Raised(upstreamErr)
          /\ Len(sleeps) = calls - 1)
    /\ (wrapperEnd = "propagated" => C5_NoIndicator(upstreamErr))

C5_Witness ==
    /\ wrapperEnd = "propagated"
    /\ calls = 2
    /\ sleeps = <<2>>
    /\ upstreamErr = ErrBoom

\* C6: the retry wrapper terminates: every iteration that does not end it
\* advances the attempt counter, the model is never called more often than
\* the retry limit, and when every attempt failed with a rate-limit error
\* the wrapper raises the generic retries-exceeded failure and returns no
\* value.
C6_Inv ==
    /\ calls <= max_retries
    /\ attempt <= max_retries
    /\ (pc = "retry" => attempt = calls /\ attempt < max_retries)
    /\ (attempt = max_retries <=> wrapperEnd = "exhausted")
    /\ (wrapperEnd = "exhausted" =>
          /\ calls = max_retries
          /\ Done
          /\ raised = Raised(MaxRetriesExceeded)
          /\ result = NoResult)

C6_Terminates ==
    /\ []C6_Inv
    /\ [][pc = "retry" => (pc' # "retry" \/ attempt' = attempt + 1)]_vars

C6_Witness ==
    /\ wrapperEnd = "exhausted"
    /\ calls = 3
    /\ sleeps = <<2, 4, 8>>


\* C7 as claimed: an upstream AI-service failure, a rate-limit failure that
\* persists through all attempts included, is answered 500 with the
\* upstream error message as error.
C7_UpstreamMessage ==
    Done /\ wrapperEnd \in {"propagated", "exhausted"} => IsError(500, upstreamErr)

\* C7 as amended: an upstream failure without rate-limit indicator is
\* answered 500 with the upstream message as error; a rate-limit failure
\* that persists through all attempts is answered 500 with the generic
\* message "Max retries exceeded for API call", not the upstream message.
C7_UpstreamOrGeneric ==
    Done =>
      /\ (wrapperEnd = "propagated" => IsError(500, upstreamErr))
      /\ (wrapperEnd = "exhausted" =>
            /\ IsError(500, MaxRetriesExceeded)
            /\ IsRateLimit(upstreamErr)
            /\ resp.body.error # upstreamErr)

C7_Witness ==
    /\ Done
    /\ wrapperEnd = "exhausted"
    /\ upstreamErr = Err429
    /\ resp.status = 500
    /\ resp.body.error = MaxRetriesExceeded

\* a component returned a structured failure result
ComponentFailed == "error" \in DOMAIN compResult /\ ~compResult.success

\* C8: whenever the code persister, the speech synthesizer or the image
\* generator reports a failure as {success: false, error}, the handler
\* answers 500 and the error of the response carries that message; a
\* generate-code request whose file was not written is not answered with
\* success.
C8_ComponentFailureIs500 ==
    Done /\ ComponentFailed =>
      /\ resp.status = 500
      /\ Contains(resp.body.error, compResult.error)

\* C9: generate_diagram follows Init -> PrimaryAttempt -> (Done | Fallback
\* -> (Done | Failed)); the image model is attempted exactly once; Fallback
\* is entered exactly when the primary attempt raised or returned no inline
\* image data; the call ends in Done with success=true whenever the image
\* bytes or the placeholder were written, also after the backend threw, and
\* in Failed with success=false only when the placeholder could not be
\* written.
PrimaryFailed == primaryOutcome \in {"raised", "no_data", "write_failed"}

C9_Edges ==
    {<<"Init", "PrimaryAttempt">>, <<"PrimaryAttempt", "Done">>,
     <<"PrimaryAttempt", "Fallback">>, <<"Fallback", "Done">>,
     <<"Fallback", "Failed">>}

C9_Inv ==
    /\ (imgState \in {"Init", "PrimaryAttempt"} =>
          primaryTries = 0 /\ primaryOutcome = "none")
    /\ (imgState = "PrimaryAttempt" => writes = <<>>)
    /\ (imgState \in {"Fallback", "Done", "Failed"} => primaryTries = 1)
    /\ (imgState = "Fallback" => PrimaryFailed /\ writes = <<>>)
    /\ (PrimaryFailed =>
          \/ imgState = "Fallback"
          \/ imgState = "Done" /\ writes = <<"image:placeholder">>
          \/ imgState = "Failed")
    /\ (imgState = "Done" <=> writes \in {<<"image:gemini">>, <<"image:placeholder">>})
    /\ (imgState = "Done" => compResult.success)
    /\ (primaryOutcome = "written" <=> writes = <<"image:gemini">>)
    /\ (imgState = "Failed" =>
          /\ ~compResult.success
          /\ PrimaryFailed
          /\ writes = <<>>
          /\ StartsWith(compResult.error, PlaceholderFailedPrefix))

C9_DiagramStateMachine ==
    /\ []C9_Inv
    /\ [][imgState' # imgState =>
            \/ <<imgState, imgState'>> \in C9_Edges
            \/ imgState \in {"Done", "Failed"} /\ imgState' = "Init"]_vars

C9_Witness ==
    /\ imgState = "Done"
    /\ primaryOutcome = "raised"
    /\ primaryTries = 1
    /\ compResult.success
    /\ writes = <<"image:placeholder">>

\* C10 as claimed: the method of a successful image result is "primary" when
\* the bytes came from the image model and "placeholder" when the fallback
\* drew the image, and the response passes it through.
C10_MethodPrimary ==
    Done /\ endpoint = "image" /\ resp.status = 200 =>
      /\ resp.body.method = compResult.method
      /\ (primaryOutcome = "written" => compResult.method = "primary")
      /\ (PrimaryFailed => compResult.method = "placeholder")

\* C10 as amended: the method of a successful image result is "gemini" when
\* the bytes came from the image model and "placeholder" when the fallback
\* drew the image, and the generate-image response passes that value
\* through unchanged.
C10_MethodGemini ==
    /\ (imgState = "Done" =>
          /\ (primaryOutcome = "written" => compResult.method = "gemini")
          /\ (PrimaryFailed => compResult.method = "placeholder"))
    /\ (Done /\ endpoint = "image" /\ resp.status = 200 =>
          /\ imgState = "Done"
          /\ resp.body.method = compResult.method)

C10_Witness ==
    /\ Done
    /\ endpoint = "image"
    /\ resp.status = 200
    /\ primaryOutcome = "written"
    /\ resp.body.method = "gemini"

(***************************************************************************)
(* Properties of the component operations.                                 *)
(***************************************************************************)
ComponentCall == call.op \in {"save_code_file", "text_to_speech", "generate_diagram"}

\* the file name cannot be derived: topic[:30] of None, or a custom file
\* name that is not a str
NameFails ==
    \/ call.op \in {"save_code_file", "generate_diagram"}
         /\ ~Truthy(call.filename) /\ call.topic.t # "str"
    \/ Truthy(call.filename) /\ call.filename.t # "str"

\* the image model raised, or the decoded image could not be written
PrimaryBackendFails == call.primary \in {"raised", "write_failed"}

\* the placeholder is drawn and cannot be drawn or saved
PlaceholderFails ==
    call.primary # "written" /\ (~call.w.ok \/ call.topic.t # "str")

\* some step inside the call fails
FailureInside ==
    \/ NameFails
    \/ call.op \in {"save_code_file", "text_to_speech"} /\ ~call.w.ok
    \/ call.op = "generate_diagram" /\ (PrimaryBackendFails \/ PlaceholderFails)

\* a failure the operation has no fallback for
UnrecoveredFailure ==
    \/ NameFails
    \/ call.op \in {"save_code_file", "text_to_speech"} /\ ~call.w.ok
    \/ call.op = "generate_diagram" /\ PlaceholderFails

StructuredFailure(o) ==
    /\ ~o.raised
    /\ o.value.success = FALSE
    /\ o.value.error # <<>>

\* C11 as stated: save_code_file, text_to_speech and generate_diagram never
\* raise, and whenever a step inside fails (file name derivation, backend
\* call, file write) the result has success = false and an error message
C11_AnyFailureIsFailureResult ==
    ComponentCall =>
      /\ ~call.out.raised
      /\ (FailureInside => StructuredFailure(call.out))

\* C11 amended: the three operations never raise; a failure of the file name
\* derivation, of the write of save_code_file, of the speech backend, or of
\* the placeholder of generate_diagram gives success = false with an error
\* message; a failure of the image backend alone is recovered by the
\* placeholder and gives success = true
C11_NeverRaises ==
    ComponentCall =>
      /\ ~call.out.raised
      /\ (UnrecoveredFailure => StructuredFailure(call.out))
      /\ (call.op = "generate_diagram" /\ ~NameFails /\ PrimaryBackendFails
            /\ ~PlaceholderFails
          => call.out.value.success /\ call.out.value.method = "placeholder")

\* the speech backend fails inside text_to_speech and the caller gets a dict
C11_Witness ==
    /\ call.op = "text_to_speech"
    /\ ~call.w.ok
    /\ ~NameFails
    /\ StructuredFailure(call.out)

Detected == call.op = "detect_dependencies"

\* the dict the latest detect_dependencies call returned
LastRun == call.runs[Len(call.runs)]

NumpyAndOs == <<"i","m","p","o","r","t"," ","n","u","m","p","y"," ","a","s"," ","n","p",
      "\n","f","r","o","m"," ","o","s"," ","i","m","p","o","r","t"," ",
      "p","a","t","h">>
Numpy == <<"n","u","m","p","y">>
Os == <<"o","s">>

FirstIdentifiers(s) ==
    {SubSeq(s, x[1], x[2]) :
       x \in {y \in (1..Len(s)) \X (1..Len(s)) :
                \E kw \in Range(import_patterns) :
                   /\ StartsWith(s, kw)
                   /\ y[1] > Len(kw) + 1
                   /\ \A k \in (Len(kw) + 1)..(y[1] - 1) : s[k] \in Whitespace
                   /\ y[1] <= y[2]
                   /\ \A k \in y[1]..y[2] : s[k] \in WordChars
                   /\ (y[2] = Len(s) \/ s[y[2] + 1] \notin WordChars)}}

FooBarAndAssignment == <<"i","m","p","o","r","t"," ","f","o","o",","," ","b","a","r","\n","x",
      " ","="," ","n","p",".","z","e","r","o","s","(","3",")">>
Foo == <<"f","o","o">>

StrictlyAscending(l) == \A i \in 1..(Len(l) - 1) : StrLess(l[i], l[i + 1])

SklearnThenNumpy == <<"f","r","o","m"," ","s","k","l","e","a","r","n",".","s","v","m"," ","i",
      "m","p","o","r","t"," ","S","V","C","\n","i","m","p","o","r","t",
      " ","n","u","m","p","y"," ","a","s"," ","n","p">>
ScikitLearn == <<"s","c","i","k","i","t","-","l","e","a","r","n">>

\* C14: detect_dependencies is a function of the code text (every run on the
\* same text returns the same dict); imports and pip_packages are in
\* ascending order without duplicates; install_command is None exactly when
\* pip_packages is empty and is otherwise pip install followed by the
\* packages of the list, separated by one space
C14_SortedAndDeterministic ==
    Detected =>
      /\ \A i \in DOMAIN call.runs : call.runs[i] = call.runs[1]
      /\ \A i \in DOMAIN call.runs :
           LET r == call.runs[i]
           IN  /\ StrictlyAscending(r.imports)
               /\ StrictlyAscending(r.pip_packages)
               /\ (r.install_command = Null <=> r.pip_packages = <<>>)
               /\ (r.pip_packages # <<>> =>
                     /\ r.install_command.t = "str"
                     /\ StartsWith(r.install_command.v, PipInstall)
                     /\ Split(SubSeq(r.install_command.v, Len(PipInstall) + 1,
                                     Len(r.install_command.v)), " ")
                          = r.pip_packages)

\* two runs on a text whose imports come in descending order
C14_Witness ==
    /\ Detected
    /\ Len(call.runs) = 2
    /\ call.code = SklearnThenNumpy
    /\ LastRun.pip_packages = <<Numpy, ScikitLearn>>
    /\ LastRun.install_command # Null

ColabCall == call.op = "colab_setup"
LocalCall == call.op = "local_setup"

\* s.split(): the maximal runs of non-whitespace characters
RECURSIVE SplitWords(_)
SplitWords(s) ==
    LET t == Strip(s)
        ws == {i \in 1..Len(t) : t[i] \in Whitespace}
    IN  IF t = <<>> THEN <<>>
        ELSE IF ws = {} THEN <<t>>
        ELSE LET i == CHOOSE k \in ws : \A j \in ws : k <= j
             IN  <<SubSeq(t, 1, i - 1)>> \o SplitWords(SubSeq(t, i + 1, Len(t)))

\* the words of the line of text that starts with head, after head
WordsAfter(text, head) ==
    LET lines == Split(text, "\n")
        hits == {i \in DOMAIN lines : StartsWith(Strip(lines[i]), head)}
        i == CHOOSE k \in hits : \A j \in hits : k <= j
    IN  IF hits = {} THEN <<>>
        ELSE SplitWords(SubSeq(Strip(lines[i]), Len(head) + 1, Len(Strip(lines[i]))))

BangPipInstall == <<"!","p","i","p"," ","i","n","s","t","a","l","l">>
Torch == <<"t","o","r","c","h">>

\* C15: the Colab text is the ready-to-run message for the empty list, the
\* all-pre-installed message for a non-empty list of pre-installed packages
\* only, and otherwise the install snippet whose !pip install line names the
\* packages of the list that are not pre-installed, in list order, and no
\* other package
C15_ColabThreeCases ==
    ColabCall =>
      LET packages == call.packages
          wanted == SelectSeq(packages, LAMBDA p : p \notin colab_preinstalled)
      IN  /\ (packages = <<>> => call.out = ColabReady)
          /\ (packages # <<>> /\ Range(packages) \subseteq colab_preinstalled
                => call.out = ColabAllPreinstalled)
          /\ (~(Range(packages) \subseteq colab_preinstalled) =>
                /\ call.out \notin {ColabReady, ColabAllPreinstalled}
                /\ WordsAfter(call.out, BangPipInstall) = wanted
                /\ \A p \in colab_preinstalled :
                     \A i \in DOMAIN WordsAfter(call.out, BangPipInstall) :
                        WordsAfter(call.out, BangPipInstall)[i] # p)

\* a list with a pre-installed and another package has been turned into the
\* snippet
C15_Witness ==
    /\ ColabCall
    /\ call.packages = <<Numpy, Torch>>
    /\ WordsAfter(call.out, BangPipInstall) = <<Torch>>

PipInstallWords == <<"p","i","p"," ","i","n","s","t","a","l","l">>

FormatCall == call.op = "format_code_response"

\* text is the local setup text for the list packages
IsLocalSetupFor(text, packages) ==
    /\ (packages = <<>> => text = LocalNone)
    /\ (packages # <<>> =>
          /\ StartsWith(text, LocalHead)
          /\ EndsWith(text, LocalTail)
          /\ WordsAfter(text, PipInstallWords) = packages)

\* C16: the local text is the no-packages message for the empty list, and
\* otherwise the three-step template whose pip install line names every
\* package of the list, those pre-installed in Colab included; the formatted
\* code response carries that text for the detected packages
C16_LocalTemplate ==
    /\ LocalCall => IsLocalSetupFor(call.out, call.packages)
    /\ FormatCall =>
         IsLocalSetupFor(call.out.local_setup, call.out.dependencies.pip_packages)

\* the local text of a formatted response names a package its Colab text
\* leaves out
C16_Witness ==
    /\ FormatCall
    /\ Len(call.out.dependencies.pip_packages) = 2
    /\ WordsAfter(call.out.local_setup, PipInstallWords)
         = call.out.dependencies.pip_packages
    /\ Len(WordsAfter(call.out.colab_setup, BangPipInstall)) = 1

\* save_code_file was called with a str topic and no custom file name, and the
\* write went through
SavedUnderDerivedName ==
    /\ call.op = "save_code_file"
    /\ ~Truthy(call.filename)
    /\ call.topic.t = "str"
    /\ call.w.ok

\* ts reads dddddddd_dddddd
IsTimestamp(ts) ==
    /\ Len(ts) = 15
    /\ ts[9] = "_"
    /\ \A i \in (1..15) \ {9} : ts[i] \in Range(DigitChars)

GradientDescent == <<"G","r","a","d","i","e","n","t"," ","D","e","s","c","e","n","t">>
GradientDescentSlug == <<"G","r","a","d","i","e","n","t","_","D","e","s","c","e","n","t","_">>
TopicLabel == <<"T","o","p","i","c",":"," ">>

\* C17: without a custom file name save_code_file writes the file
\* <slug>_<timestamp>.py, the slug being the first 30 characters of the topic
\* with every non-alphanumeric character replaced by an underscore (Gradient
\* Descent gives Gradient_Descent_<timestamp>.py), and the file holds the
\* fixed header with the topic as given, followed by the code as given
C17_DerivedNameAndContent ==
    SavedUnderDerivedName =>
      /\ ~call.out.raised
      /\ call.out.value.success
      /\ Len(call.out.files) = 1
      /\ LET fn == call.out.value.filename
             t == call.topic.v
             n == IF Len(t) < 30 THEN Len(t) ELSE 30
             content == call.out.files[1].content
             header == SubSeq(content, 1, Len(content) - Len(call.code))
         IN  /\ Len(fn) = n + 1 + 15 + 3
             /\ \A i \in 1..n : fn[i] = IF IsAlnum(t[i]) THEN t[i] ELSE "_"
             /\ fn[n + 1] = "_"
             /\ IsTimestamp(SubSeq(fn, n + 2, n + 16))
             /\ SubSeq(fn, n + 17, n + 19) = <<".", "p", "y">>
             /\ EndsWith(call.out.files[1].path, <<"/">> \o fn)
             /\ (t = GradientDescent => StartsWith(fn, GradientDescentSlug))
             /\ EndsWith(content, call.code)
             /\ StartsWith(header, HeaderTop)
             /\ Contains(header, TopicLabel \o t \o <<"\n">>)
             /\ EndsWith(header, HeaderEnd)
             /\ Len(header) = Len(HeaderTop) + Len(t) + Len(HeaderMid) + 19 + Len(HeaderEnd)

\* a topic longer than 30 characters, with characters that are replaced, has
\* been saved
C17_Witness ==
    /\ SavedUnderDerivedName
    /\ Len(call.topic.v) > 30
    /\ \E i \in 1..30 : ~IsAlnum(call.topic.v[i])
    /\ Len(call.out.value.filename) = 30 + 1 + 15 + 3

\* text_to_speech synthesized the script
Synthesized ==
    /\ call.op = "text_to_speech"
    /\ ~call.out.raised
    /\ call.out.value.success

\* t tenths of a minute is words / 150 minutes rounded to one decimal
IsRoundedDuration(t, words) ==
    LET diff == 10 * words - 150 * t
    IN  2 * diff <= 150 /\ 2 * diff >= -150

\* C18: word_count is the number of whitespace-separated words of the script
\* and the estimated duration is word_count / 150 minutes rounded to one
\* decimal, here in tenths of a minute (300 words give 300 and 2.0); the
\* generate-audio response carries both values as they are
C18_WordCountAndDuration ==
    Synthesized =>
      /\ call.out.value.word_count = call.words
      /\ IsRoundedDuration(call.out.value.estimated_duration_minutes, call.words)
      /\ (call.words = 300 => /\ call.out.value.word_count = 300
                               /\ call.out.value.estimated_duration_minutes = 20)
      /\ call.response.status = 200
      /\ call.response.body.word_count = call.out.value.word_count
      /\ call.response.body.estimated_duration
           = call.out.value.estimated_duration_minutes

\* a script of 300 words has been synthesized and answered
C18_Witness ==
    /\ Synthesized
    /\ call.words = 300
    /\ call.response.body.word_count = 300
    /\ call.response.body.estimated_duration = 20

(***************************************************************************)
(* Properties of the requests served at the same time.                     *)
(***************************************************************************)
\* C19: under any interleaving of generation requests a stored file is
\* written once and never written again, except by two requests with the
\* same topic whose file names were stamped in the same second; two requests
\* with different topics never write the same file
C19_WrittenOnce ==
    \A i, k \in DOMAIN disk :
       i < k /\ disk[i].path = disk[k].path =>
         /\ jobs[disk[i].job].topic = jobs[disk[k].job].topic
         /\ jobs[disk[i].job].stamp = jobs[disk[k].job].stamp

(***************************************************************************)
(* Properties of the order of the stages of a request.                     *)
(***************************************************************************)
\* the second stage of the request being handled has done something
SecondStageActed ==
    \/ compResult # NoResult
    \/ writes # <<>>
    \/ imgState # "Init"
    \/ primaryTries > 0

\* the AI client has been reached by the request being handled
ClientReached == clientArgs # NoArgs \/ calls > 0 \/ wrapperEnd # "none"

\* C20: a request answered 400 by validation has had no effect but its
\* response: no AI client constructed or called, no speech or image backend
\* called, no file written, no service client constructed; in an accepted
\* request the second stage (formatting and file save, speech synthesis,
\* image generation) and the construction of its component start only after
\* the AI client call has returned successfully, and the AI client is
\* constructed only after validation
C20_RejectedHasNoEffect ==
    /\ [](Done /\ resp.status = 400 => ~ClientReached /\ ~SecondStageActed)
    /\ [](SecondStageActed =>
            wrapperEnd = "returned" /\ result.success /\ calls >= 1)
    /\ [][/\ resp'.status = 400 /\ resp.status # 400 => globals' = globals
          /\ gemini_client' # gemini_client => pc = "validated"
          /\ <<tts_client, image_generator, code_processor>>'
               # <<tts_client, image_generator, code_processor>>
             => wrapperEnd = "returned" /\ result.success]_vars

\* a request is rejected after an earlier one has gone through both stages:
\* the speech client of the earlier request is there, and the rejected
\* request has touched nothing
C20_Witness ==
    /\ Done
    /\ resp.status = 400
    /\ tts_client = "TextToSpeech"
    /\ gemini_client = "GeminiClient"
    /\ ~ClientReached
    /\ ~SecondStageActed

(***************************************************************************)
(* C21: each of the four service clients is a process-wide lazy singleton: *)
(* under any interleaving of concurrent requests, several first uses at    *)
(* once included, at most one instance of each client is ever constructed  *)
(* and every request uses that same instance.                              *)
(***************************************************************************)
C21_OneInstancePerClient ==
    \A g \in DOMAIN objects :
        /\ objects[g].made <= 1
        /\ Cardinality(objects[g].used) <= 1

====
